---- MODULE Spec2Model ----
(***************************************************************************)
(* A state-machine model of the axum demo server of src/main.rs: the       *)
(* router built in main (explicit routes, two static mounts, the fallback),*)
(* the extractors in front of every handler, the handlers themselves, and  *)
(* the bb8 connection pool that query_from_db leases a connection from.    *)
(*                                                                         *)
(* Each request is an independently scheduled task.  pc is the request's   *)
(* dispatcher state; dbpc is its position inside query_from_db.            *)
(***************************************************************************)
EXTENDS Naturals, Sequences, FiniteSets

(* ------------------------------ bounds -------------------------------- *)

\* Number of request tasks the model runs concurrently.
NumRequests == 3

\* Pool::builder() keeps bb8's default max_size (10); the model scales it
\* down so that, of NumRequests requests, some hold every handle, one waits
\* for a handle and one more is served meanwhile.
PoolMaxSize == 1

\* Pool::builder() keeps bb8's default connection_timeout (30 s); the model
\* counts it in ticks of a waiting request's timer.
ConnectionTimeout == 1

Reqs == 1..NumRequests
Handles == 1..PoolMaxSize

(* ------------------------ requests (the inputs) ----------------------- *)

Methods == {"GET", "POST"}

\* Request paths, as sequences of segments ("/" is the empty sequence).
Paths ==
  { <<>>, <<"query">>, <<"form">>, <<"json">>, <<"handleParsingError">>,
    <<"handlerReturn">>, <<"returnTemplate", "bob">>, <<"query_from_db">>,
    <<"assets", "a.css">>, <<"assets2", "b.css">>, <<"nope", "x">> }

\* What a request carries besides method and path.
\*   ct     the Content-Type header
\*   body   what the body bytes are: unreadable (the transport fails while
\*          the body is buffered), malformed (not JSON / not a form),
\*          wrong_shape (well-formed, but not an Input), named / empty_name
\*          (an Input whose name is non-empty / empty), novel (fails in a way
\*          the extractor reports with a variant added after this code was
\*          written: JsonRejection is non_exhaustive)
\*   foo, bar, third, extra   the query string's keys
\*   file   whether the path names a file in the static root it is looked
\*          up in
ContentTypes == {"none", "json", "form"}
Bodies == {"unreadable", "malformed", "wrong_shape", "named", "empty_name", "novel"}
IntKeys == {"absent", "nonint", "int"}
StrKeys == {"absent", "present"}
Files == {"hit", "miss"}

NoPayload ==
  [ct |-> "none", body |-> "named", foo |-> "absent", bar |-> "absent",
   third |-> "absent", extra |-> FALSE, file |-> "miss"]

Request(m, p, pl) ==
  [method |-> m, path |-> p, ct |-> pl.ct, body |-> pl.body, foo |-> pl.foo,
   bar |-> pl.bar, third |-> pl.third, extra |-> pl.extra, file |-> pl.file]

QueryPayloads ==
  { [NoPayload EXCEPT !.foo = f, !.bar = b, !.third = t, !.extra = e] :
      f \in IntKeys, b \in StrKeys, t \in IntKeys, e \in BOOLEAN }

BodyPayloads ==
  { [NoPayload EXCEPT !.ct = c, !.body = b] : c \in ContentTypes, b \in Bodies }

FilePayloads == { [NoPayload EXCEPT !.file = f] : f \in Files }

\* The payloads worth distinguishing for a path: the part of the request the
\* route's extractor or static service reads.
PayloadsFor(p) ==
  IF p = <<"query">> THEN QueryPayloads
  ELSE IF p \in {<<"form">>, <<"json">>, <<"handleParsingError">>, <<"handlerReturn">>}
    THEN BodyPayloads
  ELSE IF p \in {<<"assets", "a.css">>, <<"assets2", "b.css">>, <<"nope", "x">>}
    THEN FilePayloads
  ELSE {NoPayload}

Inputs == UNION { { Request(m, p, pl) : m \in Methods, pl \in PayloadsFor(p) } : p \in Paths }

(* ------------------------------ the router ---------------------------- *)

\* The builder calls of main, in source order.  An endpoint is a pair
\* <<method, target>>; "ANY" stands for every method.
RouterCalls ==
  << [call |-> "route", path |-> <<>>, endpoints |-> {<<"GET", "handler">>}],
     [call |-> "route", path |-> <<"query">>, endpoints |-> {<<"GET", "query">>}],
     [call |-> "route", path |-> <<"form">>,
      endpoints |-> {<<"GET", "show_form">>, <<"POST", "accept_form">>}],
     [call |-> "route", path |-> <<"json">>, endpoints |-> {<<"POST", "accept_json">>}],
     [call |-> "route", path |-> <<"handleParsingError">>,
      endpoints |-> {<<"POST", "handle_parsing_error">>}],
     [call |-> "route", path |-> <<"handlerReturn">>,
      endpoints |-> {<<"POST", "handler_return">>}],
     [call |-> "route", path |-> <<"returnTemplate", ":name">>,
      endpoints |-> {<<"GET", "return_template">>}],
     [call |-> "route", path |-> <<"query_from_db">>,
      endpoints |-> {<<"GET", "query_from_db">>}],
     [call |-> "nest_service", path |-> <<"assets">>, endpoints |-> {<<"ANY", "assets">>}],
     [call |-> "nest_service", path |-> <<"assets2">>, endpoints |-> {<<"ANY", "serve_dir">>}],
     [call |-> "fallback_service", path |-> <<>>, endpoints |-> {<<"ANY", "serve_dir">>}],
     [call |-> "layer", path |-> <<>>, endpoints |-> {}],
     [call |-> "fallback", path |-> <<>>, endpoints |-> {<<"ANY", "handler_404">>}],
     [call |-> "with_state", path |-> <<>>, endpoints |-> {}] >>

CallsOf(kinds) == { i \in 1..Len(RouterCalls) : RouterCalls[i].call \in kinds }

\* Router::fallback and Router::fallback_service both SET the router's one
\* fallback: of several calls the last one stands.  Without any, axum answers
\* an unmatched request with an empty 404.
RouterFallback ==
  LET F == CallsOf({"fallback", "fallback_service"})
  IN  IF F = {} THEN [call |-> "none", target |-> "default_404"]
      ELSE LET last == CHOOSE i \in F : \A j \in F : j <= i
           IN  [call |-> RouterCalls[last].call,
                target |-> (CHOOSE e \in RouterCalls[last].endpoints : TRUE)[2]]

IsParam(seg) == seg = ":name"

\* A route pattern matches a path segment by segment; a :param segment
\* matches any one segment.
MatchesRoute(path, pattern) ==
  /\ Len(path) = Len(pattern)
  /\ \A i \in 1..Len(pattern) : IsParam(pattern[i]) \/ pattern[i] = path[i]

\* nest_service(prefix, ..) takes the prefix itself and everything below it.
UnderMount(path, prefix) ==
  /\ Len(path) >= Len(prefix)
  /\ SubSeq(path, 1, Len(prefix)) = prefix

\* (mutant) a route whose path matches but which has no handler for the
\* method is skipped, and the request goes on to the mounts and the fallback.
RouteOfFallThrough(rq) ==
  LET R == { i \in CallsOf({"route"}) :
               /\ MatchesRoute(rq.path, RouterCalls[i].path)
               /\ \E e \in RouterCalls[i].endpoints : e[1] = rq.method }
      M == { i \in CallsOf({"nest_service"}) : UnderMount(rq.path, RouterCalls[i].path) }
  IN  IF R # {}
        THEN LET r == CHOOSE i \in R : \A j \in R : i <= j
                 E == { e \in RouterCalls[r].endpoints : e[1] = rq.method }
             IN  [kind |-> "handler", target |-> (CHOOSE e \in E : TRUE)[2]]
      ELSE IF M # {}
        THEN LET m == CHOOSE i \in M : \A j \in M : i <= j
             IN  [kind |-> "mount",
                  target |-> (CHOOSE e \in RouterCalls[m].endpoints : TRUE)[2]]
      ELSE IF RouterFallback.call = "fallback_service"
        THEN [kind |-> "fallback_service", target |-> RouterFallback.target]
      ELSE [kind |-> "fallback", target |-> RouterFallback.target]

\* What the router does with a request: explicit routes, then the mounts in
\* the order they were nested, then the fallback.  A route whose path matches
\* but which has no handler for the method answers 405 itself.
RouteOf(rq) ==
  LET R == { i \in CallsOf({"route"}) : MatchesRoute(rq.path, RouterCalls[i].path) }
      M == { i \in CallsOf({"nest_service"}) : UnderMount(rq.path, RouterCalls[i].path) }
  IN  IF R # {}
        THEN LET r == CHOOSE i \in R : \A j \in R : i <= j
                 E == { e \in RouterCalls[r].endpoints : e[1] = rq.method }
             IN  IF E = {} THEN [kind |-> "method_not_allowed", target |-> "none"]
                 ELSE [kind |-> "handler", target |-> (CHOOSE e \in E : TRUE)[2]]
      ELSE IF M # {}
        THEN LET m == CHOOSE i \in M : \A j \in M : i <= j
             IN  [kind |-> "mount",
                  target |-> (CHOOSE e \in RouterCalls[m].endpoints : TRUE)[2]]
      ELSE IF RouterFallback.call = "fallback_service"
        THEN [kind |-> "fallback_service", target |-> RouterFallback.target]
      ELSE [kind |-> "fallback", target |-> RouterFallback.target]

(* --------------------------- static services -------------------------- *)

\* The two ServeDir values of main: ServeDir::new("assets"), and serve_dir =
\* ServeDir::new("assets2").not_found_service(ServeFile::new("assets2/index.html")).
StaticServices == {"assets", "serve_dir"}

ServeDirRoot(svc) == IF svc = "assets" THEN "assets" ELSE "assets2"

\* (mutant) every ServeDir is given the override file.
NotFoundServiceEverywhere(svc) == "assets2/index.html"

NotFoundService(svc) == IF svc = "serve_dir" THEN "assets2/index.html" ELSE "none"

\* A response: its status, its body, the Location header of a redirect, and
\* the service or handler that produced it.
Response(st, b, by) == [status |-> st, body |-> b, location |-> "", by |-> by]

NoResponse == Response(0, "", "none")

\* (mutant) the override is installed with ServeDir::fallback, which leaves
\* the override's own status (200) in place.
ServeDirCallKeepStatus(svc, rq) ==
  IF rq.method # "GET" THEN Response(405, "", svc)
  ELSE IF rq.file = "hit" THEN Response(200, ServeDirRoot(svc), svc)
  ELSE IF NotFoundService(svc) # "none" THEN Response(200, NotFoundService(svc), svc)
  ELSE Response(404, "", svc)

\* ServeDir: only GET (and HEAD) are served, anything else is 405.  A file
\* that exists is sent with 200.  On a miss a ServeDir without fallback
\* answers an empty 404; not_found_service calls the given service and SETS
\* THE STATUS of what it answers TO 404.
ServeDirCall(svc, rq) ==
  IF rq.method # "GET" THEN Response(405, "", svc)
  ELSE IF rq.file = "hit" THEN Response(200, ServeDirRoot(svc), svc)
  ELSE IF NotFoundService(svc) # "none" THEN Response(404, NotFoundService(svc), svc)
  ELSE Response(404, "", svc)

handler_404 == Response(404, "Nothing to see here!", "handler_404")

(* ------------------------------ extractors ---------------------------- *)

\* The extractor in each handler's signature ("none": no argument).
ExtractorOf(h) ==
  CASE h = "query" -> "Query"
    [] h = "accept_form" -> "Form"
    [] h \in {"accept_json", "handler_return"} -> "Json"
    [] h = "handle_parsing_error" -> "ResultJson"
    [] h = "return_template" -> "Path"
    [] h = "query_from_db" -> "State"
    [] OTHER -> "none"

\* (mutant) third is declared i32, not Option<i32>.
QueryExtractThirdRequired(rq) ==
  IF rq.foo = "int" /\ rq.bar = "present" /\ rq.third = "int"
    THEN "Ok" ELSE "FailedToDeserializeQueryString"

\* Query<Params>: foo: i32 and bar: String are required, third: Option<i32>
\* may be absent; keys that Params does not name are ignored.
QueryExtract(rq) ==
  IF rq.foo = "int" /\ rq.bar = "present" /\ rq.third \in {"absent", "int"}
    THEN "Ok" ELSE "FailedToDeserializeQueryString"

\* Form<Input> on a POST: the content type is checked first, then the body is
\* buffered, then deserialized.
FormExtract(rq) ==
  IF rq.ct # "form" THEN "InvalidFormContentType"
  ELSE IF rq.body = "unreadable" THEN "BytesRejection"
  ELSE IF rq.body \in {"named", "empty_name"} THEN "Ok"
  ELSE "FailedToDeserializeFormBody"

\* (mutant) the body is parsed before the content type is looked at.
JsonExtractSyntaxFirst(rq) ==
  IF rq.body = "malformed" THEN "JsonSyntaxError"
  ELSE IF rq.ct # "json" THEN "MissingJsonContentType"
  ELSE IF rq.body = "unreadable" THEN "BytesRejection"
  ELSE IF rq.body = "wrong_shape" THEN "JsonDataError"
  ELSE IF rq.body = "novel" THEN "Other"
  ELSE "Ok"

\* Json<Input>: the content type is checked first, then the body is buffered,
\* then parsed; serde_json tells a syntax error from a data error.  "Other"
\* stands for a rejection variant this code does not name.
JsonExtract(rq) ==
  IF rq.ct # "json" THEN "MissingJsonContentType"
  ELSE IF rq.body = "unreadable" THEN "BytesRejection"
  ELSE IF rq.body = "malformed" THEN "JsonSyntaxError"
  ELSE IF rq.body = "wrong_shape" THEN "JsonDataError"
  ELSE IF rq.body = "novel" THEN "Other"
  ELSE "Ok"

Extract(ex, rq) ==
  CASE ex = "Query" -> QueryExtract(rq)
    [] ex = "Form" -> FormExtract(rq)
    [] ex \in {"Json", "ResultJson"} -> JsonExtract(rq)
    [] OTHER -> "Ok"

\* The status axum gives each rejection when the extractor's own
\* IntoResponse answers the request.
RejectionStatus(tag) ==
  CASE tag \in {"MissingJsonContentType", "InvalidFormContentType"} -> 415
    [] tag \in {"JsonDataError", "FailedToDeserializeFormBody"} -> 422
    [] OTHER -> 400

RejectionResponse(ex, tag) == Response(RejectionStatus(tag), tag, ex)

\* (mutant) a failed extraction is passed on to the handler of every route.
RejectsNever(ex, tag) == FALSE

\* Whether a failed extraction answers the request in the handler's place:
\* it does unless the handler takes the extraction's Result.
Rejects(ex, tag) == tag # "Ok" /\ ex # "ResultJson"

(* ------------------------------- handlers ----------------------------- *)

\* (mutant) the match without its Err(_) arm.
ParsingErrorArmNoDefault(tag) ==
  CASE tag = "Ok" -> "Ok"
    [] tag = "MissingJsonContentType" -> "MissingJsonContentType"
    [] tag = "JsonDataError" -> "JsonDataError"
    [] tag = "JsonSyntaxError" -> "JsonSyntaxError"
    [] tag = "BytesRejection" -> "BytesRejection"
    [] OTHER -> "unhandled"

\* The arm of handle_parsing_error's match that takes the payload.
ParsingErrorArm(tag) ==
  CASE tag = "Ok" -> "Ok"
    [] tag = "MissingJsonContentType" -> "MissingJsonContentType"
    [] tag = "JsonDataError" -> "JsonDataError"
    [] tag = "JsonSyntaxError" -> "JsonSyntaxError"
    [] tag = "BytesRejection" -> "BytesRejection"
    [] OTHER -> "default"

\* handle_parsing_error returns (): an empty 200, whichever arm ran.
handle_parsing_error(tag) == Response(200, "", "handle_parsing_error")

\* (mutant) the condition on the name is inverted.
handler_return_inverted(rq) ==
  IF rq.body = "empty_name"
    THEN Response(200, "{\"result\":\"ok\",\"number\":1}", "handler_return")
    ELSE [Response(303, "", "handler_return") EXCEPT !.location = "/"]

\* handler_return: the JSON envelope when input.name is not empty, else
\* Redirect::to("/") (303 See Other).
handler_return(rq) ==
  IF rq.body # "empty_name"
    THEN Response(200, "{\"result\":\"ok\",\"number\":1}", "handler_return")
    ELSE [Response(303, "", "handler_return") EXCEPT !.location = "/"]

\* The response of every handler that answers in one step (all but
\* query_from_db), given the request and what its extractor produced.
HandlerResponse(h, rq, tag) ==
  CASE h = "handler" -> Response(200, "<h1>Hello, World!</h1>", h)
    [] h = "query" -> Response(200, "<h3>Test query</h3>", h)
    [] h = "show_form" -> Response(200, "<form action=\"/form\" method=\"post\">", h)
    [] h = "accept_form" -> Response(200, "<h3>Form posted</h3>", h)
    [] h = "accept_json" -> Response(200, "<h3>Json posted</h3>", h)
    [] h = "handle_parsing_error" -> handle_parsing_error(tag)
    [] h = "handler_return" -> handler_return(rq)
    [] h = "return_template" -> Response(200, "hello.html", h)

\* (mutant) the error's text is replaced by a fixed message.
internal_error_no_text(err) == Response(500, "internal error", "internal_error")

\* internal_error: 500 with err.to_string() as the body.
internal_error(err) == Response(500, err, "internal_error")

(* -------------------------------- state ------------------------------- *)

VARIABLES
  pc,        \* per request: its dispatcher state
  dbpc,      \* per request: its position inside query_from_db
  req,       \* per request: the request as received
  route,     \* per request: what the router resolved it to
  decoded,   \* per request: what its extractor produced
  arm,       \* per request: the arm of handle_parsing_error's match it took
  resp,      \* per request: the response sent
  leases,    \* the pool: pairs <<handle, request>> of connections checked out
  waiters,   \* the pool: requests suspended in pool.get(), oldest first
  waited     \* per request: ticks its pending pool.get() has been suspended

vars == <<pc, dbpc, req, route, decoded, arm, resp, leases, waiters, waited>>

NoRoute == [kind |-> "none", target |-> "none"]

Init ==
  /\ pc = [r \in Reqs |-> "Idle"]
  /\ dbpc = [r \in Reqs |-> "idle"]
  /\ req = [r \in Reqs |-> Request("GET", <<>>, NoPayload)]
  /\ route = [r \in Reqs |-> NoRoute]
  /\ decoded = [r \in Reqs |-> "none"]
  /\ arm = [r \in Reqs |-> "none"]
  /\ resp = [r \in Reqs |-> NoResponse]
  /\ leases = {}
  /\ waiters = <<>>
  /\ waited = [r \in Reqs |-> 0]

(* ------------------------------- the pool ----------------------------- *)

HeldBy(r) == { h \in Handles : <<h, r>> \in leases }

Leased == { l[1] : l \in leases }

FreeHandles == Handles \ Leased

Exhausted == FreeHandles = {}

Without(q, r) == SelectSeq(q, LAMBDA x : x # r)

\* (mutant) pool.get() hands out a handle without looking at who has it.
GrantableAny == Handles

\* The handles pool.get() may hand out: those not checked out.
Grantable == FreeHandles

\* (mutant) pool.get() fails as soon as it would have to wait.
TimerExpiredAtOnce(r) == TRUE

\* pool.get() gives up when the request has waited connection_timeout.
TimerExpired(r) == waited[r] = ConnectionTimeout

\* (mutant) the connection is handed back by hand, on the success path only.
DropConnOnSuccessOnly(r, ok) == IF ok THEN leases \ (Handles \X {r}) ELSE leases

\* conn is a PooledConnection owned by query_from_db's frame: every way out
\* of the function (the final Ok, either ? after the lease) drops it, and the
\* drop returns the connection to the pool.
DropConn(r, ok) == leases \ (Handles \X {r})

(* ------------------------------- actions ------------------------------ *)

Pool == <<leases, waiters, waited>>

\* A client sends request r, one of the requests in I.
Arrive(r, I) ==
  /\ pc[r] = "Idle"
  /\ \E i \in I : req' = [req EXCEPT ![r] = i]
  /\ pc' = [pc EXCEPT ![r] = "Matching"]
  /\ UNCHANGED <<dbpc, route, decoded, arm, resp, Pool>>

\* The router resolves the request.  A handler with an extractor has the
\* extractor run first; a handler without one runs at once.
Match(r) ==
  /\ pc[r] = "Matching"
  /\ LET rt == RouteOf(req[r])
     IN  /\ route' = [route EXCEPT ![r] = rt]
         /\ CASE rt.kind = "method_not_allowed" ->
                   /\ pc' = [pc EXCEPT ![r] = "Responded"]
                   /\ resp' = [resp EXCEPT ![r] = Response(405, "", "method_router")]
              [] rt.kind = "handler" ->
                   /\ pc' = [pc EXCEPT ![r] =
                        IF ExtractorOf(rt.target) = "none" THEN "Handling" ELSE "Decoding"]
                   /\ UNCHANGED resp
              [] rt.kind \in {"mount", "fallback_service"} ->
                   /\ pc' = [pc EXCEPT ![r] = "ResolvingStatic"]
                   /\ UNCHANGED resp
              [] rt.kind = "fallback" ->
                   /\ pc' = [pc EXCEPT ![r] = "NotFound"]
                   /\ UNCHANGED resp
  /\ UNCHANGED <<dbpc, req, decoded, arm, Pool>>

\* The handler's extractor runs.  A rejection answers the request and the
\* handler body never runs, unless the handler asked for the Result.
Decode(r) ==
  /\ pc[r] = "Decoding"
  /\ LET ex == ExtractorOf(route[r].target)
         tag == Extract(ex, req[r])
     IN  /\ decoded' = [decoded EXCEPT ![r] = tag]
         /\ IF Rejects(ex, tag)
              THEN /\ pc' = [pc EXCEPT ![r] = "Responded"]
                   /\ resp' = [resp EXCEPT ![r] = RejectionResponse(ex, tag)]
              ELSE /\ pc' = [pc EXCEPT ![r] = "Handling"]
                   /\ UNCHANGED resp
  /\ UNCHANGED <<dbpc, req, route, arm, Pool>>

\* (mutant) the handler body never returns.
HandleNeverReturns(r) ==
  /\ pc[r] = "Handling"
  /\ route[r].target # "query_from_db"
  /\ UNCHANGED vars

\* The body of a handler that has no suspension point.
Handle(r) ==
  /\ pc[r] = "Handling"
  /\ route[r].target # "query_from_db"
  /\ resp' = [resp EXCEPT ![r] = HandlerResponse(route[r].target, req[r], decoded[r])]
  /\ arm' = [arm EXCEPT ![r] =
       IF route[r].target = "handle_parsing_error"
         THEN ParsingErrorArm(decoded[r]) ELSE arm[r]]
  /\ pc' = [pc EXCEPT ![r] = "Responded"]
  /\ UNCHANGED <<dbpc, req, route, decoded, Pool>>

\* A static service (a mount, or a ServeDir set as the fallback) answers.
ResolveStatic(r) ==
  /\ pc[r] = "ResolvingStatic"
  /\ resp' = [resp EXCEPT ![r] = ServeDirCall(route[r].target, req[r])]
  /\ pc' = [pc EXCEPT ![r] = "Responded"]
  /\ UNCHANGED <<dbpc, req, route, decoded, arm, Pool>>

\* The fallback handler answers.
NotFound(r) ==
  /\ pc[r] = "NotFound"
  /\ resp' = [resp EXCEPT ![r] = handler_404]
  /\ pc' = [pc EXCEPT ![r] = "Responded"]
  /\ UNCHANGED <<dbpc, req, route, decoded, arm, Pool>>

\* (mutant) every handler asks the pool for a connection first.
PoolGetInEveryHandler(r) ==
  /\ pc[r] = "Handling"
  /\ dbpc[r] = "idle"
  /\ dbpc' = [dbpc EXCEPT ![r] = "get"]
  /\ waiters' = Append(waiters, r)
  /\ UNCHANGED <<pc, req, route, decoded, arm, resp, leases, waited>>

\* query_from_db: pool.get() is called and the request suspends in it.
PoolGet(r) ==
  /\ pc[r] = "Handling"
  /\ route[r].target = "query_from_db"
  /\ dbpc[r] = "idle"
  /\ dbpc' = [dbpc EXCEPT ![r] = "get"]
  /\ waiters' = Append(waiters, r)
  /\ UNCHANGED <<pc, req, route, decoded, arm, resp, leases, waited>>

\* pool.get() returns a connection to the oldest waiter (its timer is
\* dropped); the query is sent.
PoolGrant(r) ==
  /\ dbpc[r] = "get"
  /\ waiters # <<>> /\ Head(waiters) = r
  /\ \E h \in Grantable : leases' = leases \cup {<<h, r>>}
  /\ waiters' = Tail(waiters)
  /\ waited' = [waited EXCEPT ![r] = 0]
  /\ dbpc' = [dbpc EXCEPT ![r] = "query"]
  /\ UNCHANGED <<pc, req, route, decoded, arm, resp>>

\* Time passes for a request suspended in pool.get().
PoolTick(r) ==
  /\ dbpc[r] = "get"
  /\ waited[r] < ConnectionTimeout
  /\ waited' = [waited EXCEPT ![r] = @ + 1]
  /\ UNCHANGED <<pc, dbpc, req, route, decoded, arm, resp, leases, waiters>>

\* pool.get() returns Err(TimedOut): map_err(internal_error)? returns.
PoolTimeout(r) ==
  /\ dbpc[r] = "get"
  /\ TimerExpired(r)
  /\ waiters' = Without(waiters, r)
  /\ waited' = [waited EXCEPT ![r] = 0]
  /\ dbpc' = [dbpc EXCEPT ![r] = "done"]
  /\ resp' = [resp EXCEPT ![r] = internal_error("TimedOut")]
  /\ pc' = [pc EXCEPT ![r] = "Responded"]
  /\ UNCHANGED <<req, route, decoded, arm, leases>>

\* conn.query_one("select 1 + 1") returns: a row, or an error that
\* map_err(internal_error)? returns with.
QueryReply(r) ==
  /\ dbpc[r] = "query"
  /\ \E ok \in BOOLEAN :
       IF ok
         THEN /\ dbpc' = [dbpc EXCEPT ![r] = "extract"]
              /\ UNCHANGED <<pc, resp, leases>>
         ELSE /\ dbpc' = [dbpc EXCEPT ![r] = "done"]
              /\ resp' = [resp EXCEPT ![r] = internal_error("query_one")]
              /\ pc' = [pc EXCEPT ![r] = "Responded"]
              /\ leases' = DropConn(r, FALSE)
  /\ UNCHANGED <<req, route, decoded, arm, waiters, waited>>

\* row.try_get(0) returns: the i32, sent as text, or an error that
\* map_err(internal_error)? returns with.
TryGet(r) ==
  /\ dbpc[r] = "extract"
  /\ \E ok \in BOOLEAN :
       /\ resp' = [resp EXCEPT ![r] =
            IF ok THEN Response(200, "2", "query_from_db") ELSE internal_error("try_get")]
       /\ leases' = DropConn(r, ok)
  /\ dbpc' = [dbpc EXCEPT ![r] = "done"]
  /\ pc' = [pc EXCEPT ![r] = "Responded"]
  /\ UNCHANGED <<req, route, decoded, arm, waiters, waited>>

Step(r) ==
  \/ Match(r)
  \/ Decode(r)
  \/ Handle(r)
  \/ ResolveStatic(r)
  \/ NotFound(r)
  \/ PoolGet(r)
  \/ PoolGrant(r)
  \/ PoolTick(r)
  \/ PoolTimeout(r)
  \/ QueryReply(r)
  \/ TryGet(r)

\* The requests the concurrent specification sends: one per way a request
\* can be handled.
ConcurrentInputs ==
  { Request("GET", <<"query_from_db">>, NoPayload),
    Request("GET", <<>>, NoPayload),
    Request("POST", <<"json">>, [NoPayload EXCEPT !.ct = "json", !.body = "malformed"]),
    Request("GET", <<"assets2", "b.css">>, NoPayload),
    Request("GET", <<"nope", "x">>, NoPayload) }

\* NumRequests concurrent requests.
Next == \E r \in Reqs : Arrive(r, ConcurrentInputs) \/ Step(r)

Spec == Init /\ [][Next]_vars

\* One request, drawn from every input.
NextOne == Arrive(1, Inputs) \/ Step(1)

SpecOne == Init /\ [][NextOne]_vars

\* The runtime keeps running: while some request task can take a step, some
\* task takes one (the runtime polls ready tasks; the database answers every
\* query; a pending pool.get() is woken by a free connection or by its timer).
\* Fairness to each single task implies this, as no task's step is ever
\* disabled by another task's.
Fairness == WF_vars(\E r \in Reqs : Step(r))

FairSpec == Spec /\ Fairness

\* The transport aborts request r while its task is suspended in pool.get()
\* or in query_one: the task's future is dropped where it stands, and with it
\* its place among the pool's waiters and the connection it holds.
Abort(r) ==
  /\ dbpc[r] \in {"get", "query"}
  /\ pc' = [pc EXCEPT ![r] = "Aborted"]
  /\ waiters' = Without(waiters, r)
  /\ waited' = [waited EXCEPT ![r] = 0]
  /\ leases' = DropConn(r, FALSE)
  /\ UNCHANGED <<dbpc, req, route, decoded, arm, resp>>

\* The concurrent requests, any of which the transport may abort.
NextAbort == Next \/ \E r \in Reqs : Abort(r)

SpecAbort == Init /\ [][NextAbort]_vars

(* =============================== claims =============================== *)

Done(r) == pc[r] = "Responded"

\* C1: a request of query_from_db that has returned, by whichever branch,
\* holds no pool handle; once every request sent has completed, no handle is
\* leased.
C1_HandleReleased ==
  /\ \A r \in Reqs : Done(r) => HeldBy(r) = {}
  /\ (\A r \in Reqs : pc[r] \in {"Idle", "Responded"}) => leases = {}

\* Three requests have returned, one by each branch that follows the lease.
C1_Witness ==
  /\ \E r \in Reqs : Done(r) /\ resp[r] = Response(200, "2", "query_from_db")
  /\ \E r \in Reqs : Done(r) /\ resp[r] = internal_error("query_one")
  /\ \E r \in Reqs : Done(r) /\ resp[r] = internal_error("try_get")

\* C2 (as claimed): a request suspended in pool.get() while every handle is
\* leased never ends in failure: it keeps waiting or is served.
C2_Original ==
  [][\A r \in Reqs : (dbpc[r] = "get" /\ Exhausted) => pc'[r] # "Responded"]_vars

\* C2 (amended): a request suspended in pool.get() is not answered while it
\* waits; it leaves the wait either holding exactly one handle, or with the
\* 500 of the pool's TimedOut error and then only after it has waited the
\* whole connection timeout; and while a handle is free the oldest waiter can
\* be served.
C2_Amended ==
  /\ [](\A r \in Reqs : dbpc[r] = "get" => pc[r] = "Handling" /\ HeldBy(r) = {})
  /\ []((waiters # <<>> /\ ~Exhausted) => ENABLED PoolGrant(Head(waiters)))
  /\ [][\A r \in Reqs : dbpc[r] = "get" =>
          \/ dbpc'[r] = "get"
          \/ dbpc'[r] = "query" /\ Cardinality({h \in Handles : <<h, r>> \in leases'}) = 1
          \/ /\ pc'[r] = "Responded"
             /\ resp'[r] = internal_error("TimedOut")
             /\ waited[r] = ConnectionTimeout]_vars

\* More requests than handles ran at once, and the one left over timed out
\* while the others still held every handle.
C2_Witness ==
  /\ Cardinality(leases) = PoolMaxSize
  /\ \E r \in Reqs : Done(r) /\ resp[r] = internal_error("TimedOut")

\* C3: at no time are more handles leased than the pool's maximum size, and
\* no handle is leased to two requests.
C3_LeaseBound ==
  /\ Cardinality(leases) <= PoolMaxSize
  /\ \A k, l \in leases : k[1] = l[1] => k[2] = l[2]

\* Every handle is leased and a further request is waiting for one.
C3_Witness ==
  /\ Cardinality(leases) = PoolMaxSize
  /\ Cardinality({ l[2] : l \in leases }) = PoolMaxSize
  /\ waiters # <<>>

HasRoute(rq) == \E i \in CallsOf({"route"}) : MatchesRoute(rq.path, RouterCalls[i].path)

HasMount(rq) == \E i \in CallsOf({"nest_service"}) : UnderMount(rq.path, RouterCalls[i].path)

Routed(r) == pc[r] \notin {"Idle", "Matching"}

ViaStaticFallback(r) == route[r] = [kind |-> "fallback_service", target |-> "serve_dir"]

\* C4 (as claimed): a request is resolved by the explicit routes first, then
\* the primary mount, then the secondary mount; the static fallback is what
\* resolves it exactly when no route path and no mount prefix matches.
C4_Original ==
  \A r \in Reqs : Routed(r) =>
    /\ HasRoute(req[r]) => route[r].kind \in {"handler", "method_not_allowed"}
    /\ (~HasRoute(req[r]) /\ HasMount(req[r])) => route[r].kind = "mount"
    /\ ViaStaticFallback(r) <=> (~HasRoute(req[r]) /\ ~HasMount(req[r]))

\* C5 (as claimed): a request that matches no route and no mount is answered
\* by the secondary static root applied to its path, and gets the fixed 404
\* body only when that lookup misses.
C5_Original ==
  \A r \in Reqs : (Done(r) /\ ~HasRoute(req[r]) /\ ~HasMount(req[r])) =>
    /\ req[r].file = "hit" => resp[r] = ServeDirCall("serve_dir", req[r])
    /\ resp[r] = handler_404 => req[r].file = "miss"

UnderAssets2(r) == UnderMount(req[r].path, <<"assets2">>)

UnderAssets(r) == UnderMount(req[r].path, <<"assets">>)

\* C6 (as claimed): a GET below /assets2/ that names no file of the secondary
\* root is answered with the override file and status 200.
C6_Original ==
  \A r \in Reqs :
    (Done(r) /\ UnderAssets2(r) /\ req[r].method = "GET" /\ req[r].file = "miss") =>
      resp[r].body = "assets2/index.html" /\ resp[r].status = 200

\* C6 (amended): a GET below /assets2/ that names no file of the secondary
\* root is answered by the secondary mount with the override file as the
\* body and status 404.
C6_Amended ==
  \A r \in Reqs :
    (Done(r) /\ UnderAssets2(r) /\ req[r].method = "GET" /\ req[r].file = "miss") =>
      resp[r] = Response(404, "assets2/index.html", "serve_dir")

C6_Witness ==
  \E r \in Reqs :
    Done(r) /\ UnderAssets2(r) /\ req[r].method = "GET" /\ req[r].file = "miss"

\* C7: a request below /assets/ that names no file of the primary root is
\* answered by the primary mount alone, with an empty body: neither the
\* override file nor the fallback is served; a GET gets status 404.
C7_PrimaryMiss ==
  \A r \in Reqs : (Done(r) /\ UnderAssets(r) /\ req[r].file = "miss") =>
    /\ resp[r].by = "assets" /\ resp[r].body = ""
    /\ route[r] = [kind |-> "mount", target |-> "assets"]
    /\ req[r].method = "GET" => resp[r].status = 404

C7_Witness ==
  \E r \in Reqs :
    /\ Done(r) /\ UnderAssets(r) /\ req[r].method = "GET" /\ req[r].file = "miss"
    /\ resp[r].status = 404

DecodeFailed(r) == decoded[r] \notin {"none", "Ok"}

\* C8 (as claimed): a request whose extraction failed is answered with a
\* 4xx status.
C8_Original ==
  \A r \in Reqs : (Done(r) /\ DecodeFailed(r)) => resp[r].status \in 400..499

JsonHandlers == {"accept_json", "handle_parsing_error", "handler_return"}

FailureArms ==
  {"MissingJsonContentType", "JsonDataError", "JsonSyntaxError", "BytesRejection"}

\* C9: a JSON body without the JSON content type is tagged
\* MissingJsonContentType whatever the body is; with the content type, a
\* malformed body is tagged JsonSyntaxError and a well-formed body of the
\* wrong shape JsonDataError; handle_parsing_error takes the arm of that tag
\* and of no other.
C9_OneTag ==
  \A r \in Reqs : (route[r].target \in JsonHandlers /\ decoded[r] # "none") =>
    /\ req[r].ct # "json" => decoded[r] = "MissingJsonContentType"
    /\ (req[r].ct = "json" /\ req[r].body = "malformed") => decoded[r] = "JsonSyntaxError"
    /\ (req[r].ct = "json" /\ req[r].body = "wrong_shape") => decoded[r] = "JsonDataError"
    /\ (Done(r) /\ route[r].target = "handle_parsing_error" /\ decoded[r] \in FailureArms)
         => arm[r] = decoded[r]

\* A malformed body sent without the content type: both failures apply, the
\* missing content type is the one reported.
C9_Witness ==
  \E r \in Reqs :
    /\ Done(r) /\ route[r].target = "handle_parsing_error"
    /\ req[r].ct # "json" /\ req[r].body = "malformed"
    /\ arm[r] = "MissingJsonContentType"

\* C10: POST /handleParsingError runs its handler on every outcome of the
\* extraction; the match takes the arm of a success or of a named failure,
\* and the default arm for any other failure; the response has no body.
C10_EveryOutcomeHandled ==
  \A r \in Reqs : route[r].target = "handle_parsing_error" =>
    /\ pc[r] = "Handling" => (decoded[r] # "none" /\ ENABLED Handle(r))
    /\ Done(r) =>
         /\ resp[r].by = "handle_parsing_error" /\ resp[r].body = ""
         /\ arm[r] \in FailureArms \cup {"Ok", "default"}
         /\ decoded[r] \in FailureArms \cup {"Ok"} => arm[r] = decoded[r]
         /\ decoded[r] \notin FailureArms \cup {"Ok"} => arm[r] = "default"

\* A failure of a variant the match does not name went through the default
\* arm.
C10_Witness ==
  \E r \in Reqs :
    /\ Done(r) /\ route[r].target = "handle_parsing_error"
    /\ decoded[r] = "Other" /\ arm[r] = "default" /\ resp[r].body = ""


\* C11: a POST /handlerReturn whose body decoded is answered with the JSON
\* envelope {result: "ok", number: 1} when the name is not empty and with a
\* redirect to "/" when it is empty, and with nothing else.
C11_EnvelopeOrRedirect ==
  \A r \in Reqs : (Done(r) /\ route[r].target = "handler_return" /\ decoded[r] = "Ok") =>
    /\ req[r].body \in {"named", "empty_name"}
    /\ req[r].body = "named" =>
         resp[r] = Response(200, "{\"result\":\"ok\",\"number\":1}", "handler_return")
    /\ req[r].body = "empty_name" =>
         /\ resp[r].status \in 300..399 /\ resp[r].location = "/"
         /\ resp[r].body = "" /\ resp[r].by = "handler_return"

\* A submission with an empty name was redirected.
C11_Witness ==
  \E r \in Reqs :
    /\ Done(r) /\ route[r].target = "handler_return" /\ decoded[r] = "Ok"
    /\ req[r].body = "empty_name" /\ resp[r].location = "/"


\* A 500 whose body is the text of the given error.
Is500(rsp, text) == rsp.status = 500 /\ rsp.body = text

IsDbOutcome(rsp) ==
  \/ rsp = Response(200, "2", "query_from_db")
  \/ \E text \in {"TimedOut", "query_one", "try_get"} : Is500(rsp, text)

\* C12: query_from_db goes through pool.get(), query_one and try_get in that
\* order and runs none of them twice; the step that fails ends the request
\* with a 500 whose body is that step's error text, and the integer is sent
\* as text (status 200) only after all three succeeded.
C12_FailFast ==
  /\ [](\A r \in Reqs : (Done(r) /\ route[r].target = "query_from_db") =>
          dbpc[r] = "done" /\ IsDbOutcome(resp[r]))
  /\ [][\A r \in Reqs :
          /\ dbpc[r] = "idle" => dbpc'[r] \in {"idle", "get"}
          /\ dbpc[r] = "get" =>
               \/ dbpc'[r] \in {"get", "query"} /\ pc'[r] = "Handling"
               \/ dbpc'[r] = "done" /\ Is500(resp'[r], "TimedOut")
          /\ dbpc[r] = "query" =>
               \/ dbpc'[r] \in {"query", "extract"} /\ pc'[r] = "Handling"
               \/ dbpc'[r] = "done" /\ Is500(resp'[r], "query_one")
          /\ dbpc[r] = "extract" =>
               \/ dbpc'[r] = "extract" /\ pc'[r] = "Handling"
               \/ dbpc'[r] = "done" /\ Is500(resp'[r], "try_get")
               \/ dbpc'[r] = "done" /\ resp'[r] = Response(200, "2", "query_from_db")
          /\ dbpc[r] = "done" => (dbpc'[r] = "done" /\ resp'[r] = resp[r])
          /\ dbpc'[r] = "done" => pc'[r] = "Responded"]_vars

\* A request whose query failed was answered 500 with the query's error.
C12_Witness ==
  \E r \in Reqs : Done(r) /\ dbpc[r] = "done" /\ Is500(resp[r], "query_one")


\* C17: the query string of GET /query decodes exactly when foo is an
\* integer, bar is present and third is absent or an integer, whether or not
\* other keys are sent; the handler answers a decoded request, the rejection
\* (400) any other.
C17_QueryDecode ==
  \A r \in Reqs : (route[r].target = "query" /\ decoded[r] # "none") =>
    /\ decoded[r] = "Ok" <=>
         (req[r].foo = "int" /\ req[r].bar = "present" /\ req[r].third \in {"absent", "int"})
    /\ Done(r) =>
         IF decoded[r] = "Ok"
           THEN resp[r] = Response(200, "<h3>Test query</h3>", "query")
           ELSE resp[r].status = 400 /\ resp[r].by = "Query"

\* A query string with foo, bar and an unknown key, and without third, was
\* decoded and handled.
C17_Witness ==
  \E r \in Reqs :
    /\ Done(r) /\ route[r].target = "query" /\ decoded[r] = "Ok"
    /\ req[r].third = "absent" /\ req[r].extra /\ resp[r].status = 200

\* The methods that the route of a path has a handler for.
RegisteredMethods(path) ==
  UNION { { e[1] : e \in RouterCalls[i].endpoints } :
            i \in { j \in CallsOf({"route"}) : MatchesRoute(path, RouterCalls[j].path) } }

WrongMethod(rq) == HasRoute(rq) /\ rq.method \notin RegisteredMethods(rq.path)

\* C19: a request for a registered path with a method the path has no handler
\* for is answered 405 by the route itself, as the router's first step: no
\* extractor and no handler runs, and neither a static service nor
\* handler_404 sees it.
C19_MethodNotAllowed ==
  \A r \in Reqs : (Routed(r) /\ WrongMethod(req[r])) =>
    /\ route[r] = [kind |-> "method_not_allowed", target |-> "none"]
    /\ Done(r) /\ resp[r] = Response(405, "", "method_router")
    /\ decoded[r] = "none" /\ arm[r] = "none" /\ dbpc[r] = "idle"

\* POST / was answered 405.
C19_Witness ==
  \E r \in Reqs :
    /\ Done(r) /\ req[r].method = "POST" /\ req[r].path = <<>>
    /\ resp[r].status = 405


\* The dispatcher transitions of a request: those the design lists, the
\* arrival, and three it leaves out (a handler without extractor runs at
\* once; a route answers 405 itself; the fallback handler is entered from
\* Matching).
Transitions ==
  { <<"Idle", "Matching">>,
    <<"Matching", "Decoding">>, <<"Matching", "ResolvingStatic">>,
    <<"Decoding", "Handling">>, <<"Decoding", "Responded">>,
    <<"Handling", "Responded">>,
    <<"ResolvingStatic", "Responded">>, <<"ResolvingStatic", "NotFound">>,
    <<"NotFound", "Responded">>,
    <<"Matching", "Handling">>, <<"Matching", "Responded">>, <<"Matching", "NotFound">> }

FollowsTransitions(r) ==
  /\ pc'[r] # pc[r] => <<pc[r], pc'[r]>> \in Transitions
  /\ <<pc[r], pc'[r]>> = <<"Matching", "Handling">> => ExtractorOf(route'[r].target) = "none"
  /\ <<pc[r], pc'[r]>> = <<"Matching", "Responded">> => route'[r].kind = "method_not_allowed"
  /\ (pc'[r] = "ResolvingStatic" /\ pc[r] # "ResolvingStatic") => ~HasRoute(req[r])

\* C13 (as claimed): a request takes only these transitions; Handling is
\* entered from Decoding only with a successful decode, a failed decode goes
\* from Decoding straight to Responded, and Resolving-Static is entered only
\* when no explicit route matched.
C13_Original ==
  [][\A r \in Reqs :
       /\ FollowsTransitions(r)
       /\ <<pc[r], pc'[r]>> = <<"Decoding", "Handling">> => decoded'[r] = "Ok"
       /\ (pc[r] = "Decoding" /\ decoded'[r] \notin {"none", "Ok"}) => pc'[r] = "Responded"]_vars

\* C13 (amended): as claimed, except on the route of handle_parsing_error,
\* where Handling is entered from Decoding on every outcome of the decode.
C13_Amended ==
  [][\A r \in Reqs :
       /\ FollowsTransitions(r)
       /\ <<pc[r], pc'[r]>> = <<"Decoding", "Handling">> =>
            (decoded'[r] = "Ok" \/ route[r].target = "handle_parsing_error")
       /\ (pc[r] = "Decoding" /\ decoded'[r] \notin {"none", "Ok"}) =>
            IF route[r].target = "handle_parsing_error"
              THEN pc'[r] = "Handling" ELSE pc'[r] = "Responded"]_vars

\* handle_parsing_error is about to run on a body that failed to decode.
C13_Witness ==
  \E r \in Reqs :
    pc[r] = "Handling" /\ route[r].target = "handle_parsing_error" /\ DecodeFailed(r)


\* C14: a request starts in Matching; under fair scheduling every request
\* that has arrived is eventually Responded, whatever the other requests do;
\* a Responded request changes no more.
C14_EventuallyResponded ==
  /\ [][\A r \in Reqs : pc[r] = "Idle" => pc'[r] \in {"Idle", "Matching"}]_vars
  /\ \A r \in Reqs : (pc[r] = "Matching") ~> Done(r)
  /\ [][\A r \in Reqs : Done(r) =>
          /\ pc'[r] = pc[r] /\ dbpc'[r] = dbpc[r] /\ req'[r] = req[r]
          /\ route'[r] = route[r] /\ resp'[r] = resp[r]
          /\ HeldBy(r) = {} /\ ~\E i \in 1..Len(waiters') : waiters'[i] = r]_vars

\* Every request was sent and answered, one of them after it had waited for
\* a handle until the pool gave up.
C14_Witness ==
  /\ \A r \in Reqs : Done(r)
  /\ \E r \in Reqs : Is500(resp[r], "TimedOut")
  /\ \E r \in Reqs : resp[r].status = 200


\* C15: a request of query_from_db that the transport aborted, whether while
\* it waited for a handle or while its query was in flight, holds no handle
\* and no place among the pool's waiters; the handles it leaves are there for
\* the other requests.
C15_AbortReleases ==
  \A r \in Reqs : pc[r] = "Aborted" =>
    /\ HeldBy(r) = {}
    /\ ~\E i \in 1..Len(waiters) : waiters[i] = r
    /\ (waiters # <<>> /\ ~Exhausted) => ENABLED PoolGrant(Head(waiters))

\* A request was aborted while its query was in flight, and the handle it
\* held is now leased to another request.
C15_Witness ==
  \E r, q \in Reqs :
    /\ pc[r] = "Aborted" /\ dbpc[r] = "query"
    /\ dbpc[q] = "query" /\ pc[q] = "Handling" /\ HeldBy(q) # {}
    /\ Exhausted


\* The response the router, the extractor and the handler give a request of
\* a route other than query_from_db when nothing else runs.
Answer(rq) ==
  LET rt == RouteOf(rq)
  IN  CASE rt.kind = "method_not_allowed" -> Response(405, "", "method_router")
        [] rt.kind = "handler" ->
             LET ex == ExtractorOf(rt.target)
                 tag == Extract(ex, rq)
             IN  IF Rejects(ex, tag) THEN RejectionResponse(ex, tag)
                 ELSE HandlerResponse(rt.target, rq, tag)
        [] rt.kind \in {"mount", "fallback_service"} -> ServeDirCall(rt.target, rq)
        [] rt.kind = "fallback" -> handler_404

IsDbRequest(rq) == rq.method = "GET" /\ rq.path = <<"query_from_db">>

\* A step of request r that does not look at the pool.
PoolFreeStep(r) ==
  Match(r) \/ Decode(r) \/ Handle(r) \/ ResolveStatic(r) \/ NotFound(r)

InWaiters(r) == \E i \in 1..Len(waiters) : waiters[i] = r

\* The request ended in a DecodeFailure or in a DatabaseError.
Failed(r) ==
  /\ Done(r)
  /\ \/ DecodeFailed(r)
     \/ \E text \in {"TimedOut", "query_one", "try_get"} : Is500(resp[r], text)

\* C16: a request that ended in a DecodeFailure or a DatabaseError leaves
\* nothing behind: it holds no handle and no place among the waiters, so
\* every handle is free or leased to a request still running its query;
\* requests not yet sent can still be sent; a request of any other route
\* gets the answer it gets when it runs alone, and a request of
\* query_from_db one of that handler's outcomes.
C16_FailureConfined ==
  /\ \A r \in Reqs : Failed(r) =>
        HeldBy(r) = {} /\ ~InWaiters(r) /\ waited[r] = 0
  /\ \A l \in leases :
        pc[l[2]] = "Handling" /\ dbpc[l[2]] \in {"query", "extract"}
  /\ Cardinality(FreeHandles) + Cardinality(Leased) = PoolMaxSize
  /\ (\E r \in Reqs : Failed(r)) =>
        \A q \in Reqs :
          /\ pc[q] = "Idle" => ENABLED Arrive(q, ConcurrentInputs)
          /\ (Done(q) /\ ~IsDbRequest(req[q])) => resp[q] = Answer(req[q])
          /\ (Done(q) /\ IsDbRequest(req[q])) => IsDbOutcome(resp[q])

\* One request was rejected by its extractor, one ended in a database
\* error, and a third then got the pool's only handle and its row.
C16_Witness ==
  \E r1, r2, q \in Reqs :
    /\ Done(r1) /\ DecodeFailed(r1) /\ resp[r1].status = 400
    /\ Done(r2) /\ Is500(resp[r2], "query_one")
    /\ pc[q] = "Handling" /\ dbpc[q] = "extract" /\ HeldBy(q) # {}

\* The steps a request has left before it is answered, when it is of a
\* route other than query_from_db.
StepsLeft(r) ==
  CASE pc[r] \in {"Idle", "Responded"} -> 0
    [] pc[r] = "Matching" -> 3
    [] pc[r] = "Decoding" -> 2
    [] OTHER -> 1

\* C18: a request of a route other than GET /query_from_db, or of a static
\* mount, never asks the pool for anything: it holds no handle and never
\* waits for one; while every handle is leased and requests wait for one, it
\* has a step to take that does not look at the pool; each of its steps
\* brings it nearer to its answer, which is the answer it gets when it runs
\* alone.
C18_OnlyDbLeases ==
  /\ [](\A r \in Reqs : (pc[r] # "Idle" /\ ~IsDbRequest(req[r])) =>
          /\ HeldBy(r) = {} /\ ~InWaiters(r)
          /\ dbpc[r] = "idle" /\ waited[r] = 0
          /\ (Exhausted /\ waiters # <<>> /\ pc[r] # "Responded") =>
               ENABLED PoolFreeStep(r)
          /\ Done(r) => resp[r] = Answer(req[r]))
  /\ [][\A r \in Reqs : (pc[r] # "Idle" /\ ~IsDbRequest(req[r])) =>
          \/ pc'[r] = pc[r]
          \/ StepsLeft(r)' < StepsLeft(r)]_vars
  /\ [](\A l \in leases : IsDbRequest(req[l[2]]))

\* The pool's handles are all leased, a request waits for one, and a request
\* of another route is in its handler.
C18_Witness ==
  \E r, w, q \in Reqs :
    /\ Exhausted /\ HeldBy(r) # {}
    /\ InWaiters(w) /\ dbpc[w] = "get"
    /\ ~IsDbRequest(req[q]) /\ pc[q] = "Handling"

====
